---------------------------- MODULE Spec2Model ----------------------------
(***************************************************************************)
(* The two executables of the repository, src/java/spotless_apply.py and   *)
(* src/java/test.py: walk from a start directory up to the filesystem root *)
(* looking for a Maven or Gradle marker, resolve the build tool among the  *)
(* wrapper candidates of the located root and the search path, and run it. *)
(*                                                                         *)
(* Filesystem: one chain of directories 0 (the filesystem root) .. depth,  *)
(* where directory d > 0 has parent d - 1 and os.path.dirname of the root  *)
(* is the root itself.  Directories below the start directory are off the  *)
(* path the walk takes.  The operating system is POSIX: os.access(X_OK) is *)
(* the execute permission of the file.                                     *)
(*                                                                         *)
(* A file name is a pair <<stem, extension>>, so that str.endswith is      *)
(* computed on the name and not looked up in a table.                      *)
(***************************************************************************)
EXTENDS Integers, Sequences, FiniteSets

\* ------------------------------------------------------------- bounds
\* deepest directory of the chain when the whole program runs
MaxDepth == 1
\* deepest directory of the chain when the Root Locator is checked alone
MaxWalkDepth == 2
\* in the whole-program specification: how many wrapper candidates a located
\* root may hold, and how many candidates the search path may hold
MaxPresent == 1

\* ------------------------------------------------------ program constants
MAVEN_MARKERS == << <<"pom", ".xml">> >>
GRADLE_MARKERS == << <<"build", ".gradle">>, <<"build.gradle", ".kts">> >>

MAVEN_WRAPPERS == << <<"mvnw", "">>, <<"mvnw", ".cmd">>, <<"mvn", "">> >>
GRADLE_WRAPPERS ==
    << <<"gradlew", "">>, <<"gradlew", ".bat">>, <<"gradle", "">>, <<"gradle", ".bat">> >>

EXIT_OK == 0
EXIT_ERROR == 1
EXIT_NOT_FOUND == 127
EXIT_INTERRUPTED == 130

\* Optional[T]: None, or a value
None == << >>
Some(x) == << x >>

Executables == {"spotless_apply", "test"}

\* the directories of a chain
Chain(depth) == 0 .. depth

Range(s) == { s[i] : i \in 1 .. Len(s) }

AllMarkers == Range(MAVEN_MARKERS) \cup Range(GRADLE_MARKERS)

\* exit statuses a child that ran to completion may report
ChildStatuses == {0, 1, 2, 127, 130}
\* signals that may kill the child; subprocess reports returncode = -signal
ChildSignals == {9}
\* what the interpreter's exit is when KeyboardInterrupt leaves main uncaught:
\* 1 (traceback, Python before 3.8) or death by SIGINT, seen as 128 + 2
UncaughtInterruptStatuses == {1, 130}

VARIABLES
    exe,        \* the executable that runs
    dry_run,    \* test.py's --dry-run (FALSE for spotless_apply.py)
    start,      \* abspath(start or os.getcwd())
    files,      \* files[d]: the marker files directory d holds
    pc,         \* the place of the program
    cur,        \* find_project_root_with's cur
    mroot,      \* main's mroot
    groot,      \* main's groot
    env,        \* what which_in_dir read: the root's candidates and the PATH
    tool,       \* main's mvn / gradle
    outcome,    \* what subprocess.run did
    launched,   \* child processes started
    rc,         \* the value main returns
    status      \* the exit status of the process

vars == << exe, dry_run, start, files, pc, cur, mroot, groot, env, tool,
           outcome, launched, rc, status >>

\* ------------------------------------------------------------ Root Locator
\* os.path.dirname(cur)
Parent(d) == IF d = 0 THEN 0 ELSE d - 1

\* a mutant of Exists: the lookup also sees the directories below d
ExistsBelow(d, m) == \E x \in DOMAIN files : x >= d /\ m \in files[x]

\* os.path.exists(os.path.join(cur, m))
Exists(d, m) == m \in files[d]

\* for m in markers: if os.path.exists(os.path.join(cur, m)): return cur
RECURSIVE AnyMarkerFrom(_, _, _)
AnyMarkerFrom(d, markers, i) ==
    IF i > Len(markers) THEN FALSE
    ELSE IF Exists(d, markers[i]) THEN TRUE
    ELSE AnyMarkerFrom(d, markers, i + 1)

\* a mutant of HasMarker: only the first marker of the list is looked for
HasMarkerFirstOnly(d, markers) == Exists(d, markers[1])

HasMarker(d, markers) == AnyMarkerFrom(d, markers, 1)

\* a mutant of AtFilesystemRoot: the test for the filesystem root never succeeds
AtFilesystemRootNever(d) == FALSE

\* if parent == cur: return None
AtFilesystemRoot(d) == Parent(d) = d

\* sys.exit(rc): the low eight bits of an int, 0 for None
ExitStatus(r) == IF r = None THEN 0 ELSE r[1] % 256

NoEnv == [exists |-> {}, xbit |-> {}, path |-> {}]

\* the program starts: any filesystem, any start directory, any command line
InitAt(depth) ==
    /\ exe \in Executables
    /\ dry_run \in (IF exe = "test" THEN BOOLEAN ELSE {FALSE})
    /\ start \in Chain(depth)
    /\ files \in [Chain(depth) -> SUBSET AllMarkers]
    /\ pc = "find_maven"
    /\ cur = start
    /\ mroot = None
    /\ groot = None
    /\ env = NoEnv
    /\ tool = None
    /\ outcome = None
    /\ launched = 0
    /\ rc = None
    /\ status = None

Init == InitAt(MaxDepth)

\* a mutant of FindMaven: one walk for both kinds, which leaves the Maven kind
\* at the first directory that holds a Gradle marker
FindMavenNearestKind ==
    /\ pc = "find_maven"
    /\ IF HasMarker(cur, MAVEN_MARKERS)
       THEN /\ mroot' = Some(cur)
            /\ pc' = "which_maven"
            /\ cur' = cur
       ELSE IF AtFilesystemRoot(cur) \/ HasMarker(cur, GRADLE_MARKERS)
       THEN /\ mroot' = None
            /\ pc' = "find_gradle"
            /\ cur' = start
       ELSE /\ cur' = Parent(cur)
            /\ UNCHANGED << mroot, pc >>
    /\ UNCHANGED << exe, dry_run, start, files, groot, env, tool, outcome,
                    launched, rc, status >>

\* one iteration of the loop of find_project_root_with(MAVEN_MARKERS)
FindMaven ==
    /\ pc = "find_maven"
    /\ IF HasMarker(cur, MAVEN_MARKERS)
       THEN /\ mroot' = Some(cur)
            /\ pc' = "which_maven"
            /\ cur' = cur
       ELSE IF AtFilesystemRoot(cur)
       THEN /\ mroot' = None
            /\ pc' = "find_gradle"
            /\ cur' = start
       ELSE /\ cur' = Parent(cur)
            /\ UNCHANGED << mroot, pc >>
    /\ UNCHANGED << exe, dry_run, start, files, groot, env, tool, outcome,
                    launched, rc, status >>

\* one iteration of the loop of find_project_root_with(GRADLE_MARKERS); when it
\* returns None main returns 0
FindGradle ==
    /\ pc = "find_gradle"
    /\ IF HasMarker(cur, GRADLE_MARKERS)
       THEN /\ groot' = Some(cur)
            /\ pc' = "which_gradle"
            /\ UNCHANGED << cur, rc, status >>
       ELSE IF AtFilesystemRoot(cur)
       THEN /\ groot' = None
            /\ pc' = "exit"
            /\ rc' = Some(EXIT_OK)
            /\ status' = Some(ExitStatus(rc'))
            /\ cur' = cur
       ELSE /\ cur' = Parent(cur)
            /\ UNCHANGED << groot, pc, rc, status >>
    /\ UNCHANGED << exe, dry_run, start, files, mroot, env, tool, outcome, launched >>

\* ------------------------------------------------------------ Tool Resolver
\* candidate.lower().endswith(suffixes); every candidate name of the program
\* is lower case already, and the directory part cannot end the joined path
EndsWith(name, suffixes) == name[2] \in suffixes

\* os.path.exists(candidate)
CandidateExists(name, e) == name \in e.exists

\* os.access(candidate, os.X_OK)
AccessXOK(name, e) == name \in e.exists /\ name \in e.xbit

\* shutil.which(name)
ShutilWhich(name, e) == IF name \in e.path THEN Some(name) ELSE None

\* spotless_apply.py: os.path.exists(candidate) and os.access(candidate, os.X_OK)
accepted_spotless_apply(name, e) == CandidateExists(name, e) /\ AccessXOK(name, e)

\* test.py: os.path.exists(candidate) and
\*          (os.access(candidate, os.X_OK) or candidate.lower().endswith(('.bat', '.cmd')))
accepted_test(name, e) ==
    /\ CandidateExists(name, e)
    /\ (AccessXOK(name, e) \/ EndsWith(name, {".bat", ".cmd"}))

Accepted(x, name, e) ==
    IF x = "test" THEN accepted_test(name, e) ELSE accepted_spotless_apply(name, e)

\* a resolved tool: the candidate's path in dirpath, or what shutil.which gave
InDir(dirpath, name) == Some([src |-> "dir", dir |-> Some(dirpath), name |-> name])
OnPath(name) == Some([src |-> "path", dir |-> None, name |-> name])

\* the first loop: for name in names: ... return candidate
RECURSIVE FirstInDir(_, _, _, _, _)
FirstInDir(x, names, dirpath, e, i) ==
    IF i > Len(names) THEN None
    ELSE IF Accepted(x, names[i], e) THEN InDir(dirpath, names[i])
    ELSE FirstInDir(x, names, dirpath, e, i + 1)

\* the second loop: for name in names: exe = shutil.which(name); if exe: return exe
RECURSIVE FirstOnPath(_, _, _)
FirstOnPath(names, e, i) ==
    IF i > Len(names) THEN None
    ELSE IF ShutilWhich(names[i], e) # None THEN OnPath(names[i])
    ELSE FirstOnPath(names, e, i + 1)

\* a mutant of which_in_dir: the search path is consulted first
which_in_dir_path_first(x, names, dirpath, e) ==
    LET global == FirstOnPath(names, e, 1)
    IN  IF global # None THEN global ELSE FirstInDir(x, names, dirpath, e, 1)

which_in_dir(x, names, dirpath, e) ==
    LET local == FirstInDir(x, names, dirpath, e, 1)
    IN  IF local # None THEN local ELSE FirstOnPath(names, e, 1)

\* what a located root and the search path may hold of the candidates `names`
AllEnvs(names) ==
    { [exists |-> ex, xbit |-> xb, path |-> pa] :
        ex \in SUBSET Range(names), xb \in SUBSET Range(names), pa \in SUBSET Range(names) }

FullEnvs(names) == { e \in AllEnvs(names) : e.xbit \subseteq e.exists }

BoundedEnvs(names) ==
    { e \in FullEnvs(names) :
        Cardinality(e.exists) <= MaxPresent /\ Cardinality(e.path) <= MaxPresent }

\* a mutant of WhichMaven: without a Maven tool the Gradle kind is tried
WhichMavenFallsThrough(envs) ==
    /\ pc = "which_maven"
    /\ \E e \in envs :
        /\ env' = e
        /\ tool' = which_in_dir(exe, MAVEN_WRAPPERS, mroot[1], e)
    /\ IF tool' = None
       THEN /\ pc' = "find_gradle"
            /\ UNCHANGED << rc, status >>
       ELSE IF exe = "test" /\ dry_run
       THEN /\ rc' = Some(EXIT_OK)
            /\ status' = Some(ExitStatus(rc'))
            /\ pc' = "exit"
       ELSE /\ pc' = "run_maven"
            /\ UNCHANGED << rc, status >>
    /\ UNCHANGED << exe, dry_run, start, files, cur, mroot, groot, outcome, launched >>

\* main, from which_in_dir(MAVEN_WRAPPERS, mroot) to the call of run_cmd
WhichMaven(envs) ==
    /\ pc = "which_maven"
    /\ \E e \in envs :
        /\ env' = e
        /\ tool' = which_in_dir(exe, MAVEN_WRAPPERS, mroot[1], e)
    /\ IF tool' = None
       THEN /\ rc' = Some(EXIT_NOT_FOUND)
            /\ status' = Some(ExitStatus(rc'))
            /\ pc' = "exit"
       ELSE IF exe = "test" /\ dry_run
       THEN /\ rc' = Some(EXIT_OK)
            /\ status' = Some(ExitStatus(rc'))
            /\ pc' = "exit"
       ELSE /\ pc' = "run_maven"
            /\ UNCHANGED << rc, status >>
    /\ UNCHANGED << exe, dry_run, start, files, cur, mroot, groot, outcome, launched >>

\* a mutant of WhichGradle: --dry-run is not looked at
WhichGradleIgnoresDryRun(envs) ==
    /\ pc = "which_gradle"
    /\ \E e \in envs :
        /\ env' = e
        /\ tool' = which_in_dir(exe, GRADLE_WRAPPERS, groot[1], e)
    /\ IF tool' = None
       THEN /\ rc' = Some(EXIT_NOT_FOUND)
            /\ status' = Some(ExitStatus(rc'))
            /\ pc' = "exit"
       ELSE /\ pc' = "run_gradle"
            /\ UNCHANGED << rc, status >>
    /\ UNCHANGED << exe, dry_run, start, files, cur, mroot, groot, outcome, launched >>

\* main, from which_in_dir(GRADLE_WRAPPERS, groot) to the call of run_cmd
WhichGradle(envs) ==
    /\ pc = "which_gradle"
    /\ \E e \in envs :
        /\ env' = e
        /\ tool' = which_in_dir(exe, GRADLE_WRAPPERS, groot[1], e)
    /\ IF tool' = None
       THEN /\ rc' = Some(EXIT_NOT_FOUND)
            /\ status' = Some(ExitStatus(rc'))
            /\ pc' = "exit"
       ELSE IF exe = "test" /\ dry_run
       THEN /\ rc' = Some(EXIT_OK)
            /\ status' = Some(ExitStatus(rc'))
            /\ pc' = "exit"
       ELSE /\ pc' = "run_gradle"
            /\ UNCHANGED << rc, status >>
    /\ UNCHANGED << exe, dry_run, start, files, cur, mroot, groot, outcome, launched >>

\* ----------------------------------------------------------- Command Runner
\* what subprocess.run(cmd, cwd=cwd) may do
Outcomes ==
    { [kind |-> "exited", code |-> c] : c \in ChildStatuses }
    \cup { [kind |-> "signaled", code |-> 0 - s] : s \in ChildSignals }
    \cup { [kind |-> k, code |-> 0] :
             k \in {"FileNotFoundError", "KeyboardInterrupt", "OSError"} }

\* the child process was started
Started(o) == o.kind \in {"exited", "signaled", "KeyboardInterrupt"}

\* a mutant of run_cmd_spotless_apply: every failure of the child is reported as 1
run_cmd_spotless_apply_flattens(o) ==
    IF o.kind \in {"exited", "signaled"}
    THEN (IF o.code = 0 THEN Some(EXIT_OK) ELSE Some(EXIT_ERROR))
    ELSE IF o.kind = "FileNotFoundError" THEN Some(EXIT_NOT_FOUND)
    ELSE IF o.kind = "KeyboardInterrupt" THEN None
    ELSE Some(EXIT_ERROR)

\* run_cmd of spotless_apply.py; None: the exception leaves run_cmd
run_cmd_spotless_apply(o) ==
    IF o.kind \in {"exited", "signaled"} THEN Some(o.code)
    ELSE IF o.kind = "FileNotFoundError" THEN Some(EXIT_NOT_FOUND)
    ELSE IF o.kind = "KeyboardInterrupt" THEN None
    ELSE Some(EXIT_ERROR)

\* run_cmd of test.py
run_cmd_test(o) ==
    IF o.kind \in {"exited", "signaled"} THEN Some(o.code)
    ELSE IF o.kind = "FileNotFoundError" THEN Some(EXIT_NOT_FOUND)
    ELSE IF o.kind = "KeyboardInterrupt" THEN Some(EXIT_INTERRUPTED)
    ELSE Some(EXIT_ERROR)

run_cmd(x, o) == IF x = "test" THEN run_cmd_test(o) ELSE run_cmd_spotless_apply(o)

\* return run_cmd(cmd, cwd=root), then sys.exit(rc); an exception that leaves
\* run_cmd leaves main too, and the interpreter ends the process
RunAndExit ==
    \E o \in Outcomes :
        /\ outcome' = Some(o)
        /\ launched' = IF Started(o) THEN launched + 1 ELSE launched
        /\ rc' = run_cmd(exe, o)
        /\ IF rc' = None
           THEN \E s \in UncaughtInterruptStatuses : status' = Some(s)
           ELSE status' = Some(ExitStatus(rc'))
        /\ pc' = "exit"

RunMaven ==
    /\ pc = "run_maven"
    /\ RunAndExit
    /\ UNCHANGED << exe, dry_run, start, files, cur, mroot, groot, env, tool >>

RunGradle ==
    /\ pc = "run_gradle"
    /\ RunAndExit
    /\ UNCHANGED << exe, dry_run, start, files, cur, mroot, groot, env, tool >>

\* ------------------------------------------------------------ specifications
\* the whole program
Next ==
    \/ FindMaven
    \/ FindGradle
    \/ WhichMaven(BoundedEnvs(MAVEN_WRAPPERS))
    \/ WhichGradle(BoundedEnvs(GRADLE_WRAPPERS))
    \/ RunMaven
    \/ RunGradle

Spec == Init /\ [][Next]_vars

\* the Root Locator alone, which runs to its return
NextWalk == FindMaven \/ FindGradle

InitWalk == InitAt(MaxWalkDepth)

WalkSpec == InitWalk /\ [][NextWalk]_vars /\ WF_vars(NextWalk)

\* the Tool Resolver alone, entered with a root that was located at the start
\* directory, over everything the root and the search path may hold
InitResolve ==
    /\ exe \in Executables
    /\ dry_run \in (IF exe = "test" THEN BOOLEAN ELSE {FALSE})
    /\ start \in Chain(MaxDepth)
    /\ cur = start
    /\ \E m \in AllMarkers :
        /\ files = [d \in Chain(MaxDepth) |-> IF d = start THEN {m} ELSE {}]
        /\ IF HasMarker(start, MAVEN_MARKERS)
           THEN mroot = Some(start) /\ groot = None /\ pc = "which_maven"
           ELSE mroot = None /\ groot = Some(start) /\ pc = "which_gradle"
    /\ env = NoEnv
    /\ tool = None
    /\ outcome = None
    /\ launched = 0
    /\ rc = None
    /\ status = None

NextResolve ==
    \/ WhichMaven(FullEnvs(MAVEN_WRAPPERS))
    \/ WhichGradle(FullEnvs(GRADLE_WRAPPERS))

ResolveSpec == InitResolve /\ [][NextResolve]_vars

\* ------------------------------------------------------------- properties
\* the directories from the start directory up to the filesystem root that
\* hold one of `markers`
MarkerDirs(markers) ==
    { d \in 0 .. start : \E i \in 1 .. Len(markers) : markers[i] \in files[d] }

Max(S) == CHOOSE x \in S : \A y \in S : y <= x
Min(S) == CHOOSE x \in S : \A y \in S : x <= y

\* the nearest directory of the path that holds one of `markers`
Nearest(markers) ==
    IF MarkerDirs(markers) = {} THEN None ELSE Some(Max(MarkerDirs(markers)))

\* the Maven walk has returned; the Gradle walk has returned
MavenWalkDone == pc # "find_maven"
GradleWalkDone == pc \in {"which_gradle", "run_gradle", "exit"} /\ mroot = None

GradlePlaces == {"find_gradle", "which_gradle", "run_gradle"}

\* which_in_dir has returned
Resolved ==
    \/ pc \in {"run_maven", "run_gradle"}
    \/ pc = "exit" /\ (mroot # None \/ groot # None)

RootLocated == IF mroot # None THEN mroot[1] ELSE groot[1]
Candidates == IF mroot # None THEN MAVEN_WRAPPERS ELSE GRADLE_WRAPPERS

\* the candidates' indices the in-directory pass of executable x takes, and
\* those the search path holds
LocalIdx(x, names, e) == { i \in 1 .. Len(names) : Accepted(x, names[i], e) }
PathIdx(names, e) == { i \in 1 .. Len(names) : names[i] \in e.path }

\* the two-pass priority lookup, stated by least indices
PriorityLookup(x, names, dirpath, e) ==
    IF LocalIdx(x, names, e) # {}
    THEN InDir(dirpath, names[Min(LocalIdx(x, names, e))])
    ELSE IF PathIdx(names, e) # {}
    THEN OnPath(names[Min(PathIdx(names, e))])
    ELSE None

\* C1: when a directory on the path from start to the filesystem root holds a
\* marker, the walk returns the one of them nearest to start (start itself
\* when it holds a marker), for the Maven markers and for the Gradle markers.
C1_ClosestAncestor ==
    /\ (MavenWalkDone /\ MarkerDirs(MAVEN_MARKERS) # {})
          => mroot = Some(Max(MarkerDirs(MAVEN_MARKERS)))
    /\ (GradleWalkDone /\ MarkerDirs(GRADLE_MARKERS) # {})
          => groot = Some(Max(MarkerDirs(GRADLE_MARKERS)))

\* the Gradle walk returned a proper ancestor of start that holds only
\* build.gradle.kts, while a more distant ancestor holds a marker too
C1_Witness ==
    /\ pc = "which_gradle"
    /\ groot # None
    /\ groot[1] < start
    /\ files[groot[1]] = {GRADLE_MARKERS[2]}
    /\ \E d \in 0 .. groot[1] - 1 : files[d] \cap Range(GRADLE_MARKERS) # {}

\* C2: when no directory on the path holds a marker, the walk ends (at the
\* directory that is its own parent) and returns None, for both marker lists.
C2_NoMarkerReturnsNone ==
    /\ (pc = "find_maven" /\ MarkerDirs(MAVEN_MARKERS) = {})
          ~> (pc = "find_gradle" /\ mroot = None /\ cur = start)
    /\ (pc = "find_gradle" /\ MarkerDirs(GRADLE_MARKERS) = {})
          ~> (pc = "exit" /\ groot = None /\ cur = 0)
    /\ [](MarkerDirs(MAVEN_MARKERS) = {} => mroot = None)
    /\ [](MarkerDirs(GRADLE_MARKERS) = {} => groot = None)

\* both walks climbed from a start directory below the filesystem root and
\* returned None
C2_Witness ==
    /\ pc = "exit"
    /\ start > 1
    /\ MarkerDirs(MAVEN_MARKERS) = {}
    /\ MarkerDirs(GRADLE_MARKERS) = {}
    /\ mroot = None
    /\ groot = None

\* C3: which_in_dir returns the candidate of least list index among those its
\* in-directory pass takes, if any; otherwise the candidate of least list
\* index on the search path; otherwise None.  (What the in-directory pass of
\* each executable takes is the subject of C9.)
C3_TwoPassPriority ==
    Resolved => tool = PriorityLookup(exe, Candidates, RootLocated, env)

\* an in-directory candidate won over an earlier candidate that is only on the
\* search path, and over a later candidate of the directory
C3_Witness ==
    /\ Resolved
    /\ tool # None
    /\ tool[1].src = "dir"
    /\ \E i, j, k \in 1 .. Len(Candidates) :
        /\ j < i /\ i < k
        /\ tool[1].name = Candidates[i]
        /\ Candidates[j] \in env.path /\ Candidates[j] \notin env.exists
        /\ Candidates[i] \in env.path
        /\ Candidates[k] \in env.xbit

\* C4: a root is located and no candidate resolves: the exit status is 127 and
\* no child process is launched; once a Maven root is located the Gradle kind
\* is never tried.
C4_NoToolIs127 ==
    /\ (pc = "exit" /\ (mroot # None \/ groot # None) /\ tool = None)
          => /\ status = Some(EXIT_NOT_FOUND)
             /\ launched = 0
             /\ outcome = None
    /\ mroot # None => (pc \notin GradlePlaces /\ groot = None)

\* a Maven root without a Maven tool, in a directory that holds a Gradle marker too
C4_Witness ==
    /\ pc = "exit"
    /\ mroot # None
    /\ tool = None
    /\ files[mroot[1]] \cap Range(GRADLE_MARKERS) # {}
    /\ status = Some(EXIT_NOT_FOUND)

\* C5: no Maven marker and no Gradle marker on the path from start to the
\* filesystem root: the exit status is 0 and no child process is launched.
C5_NoProjectIs0 ==
    (MarkerDirs(MAVEN_MARKERS) = {} /\ MarkerDirs(GRADLE_MARKERS) = {})
       => /\ launched = 0
          /\ outcome = None
          /\ tool = None
          /\ pc \in {"find_maven", "find_gradle", "exit"}
          /\ pc = "exit" => status = Some(EXIT_OK)

\* the program ended without a project although a directory below the start
\* directory holds markers
C5_Witness ==
    /\ pc = "exit"
    /\ MarkerDirs(MAVEN_MARKERS) = {}
    /\ MarkerDirs(GRADLE_MARKERS) = {}
    /\ \E d \in DOMAIN files : d > start /\ files[d] = AllMarkers
    /\ status = Some(EXIT_OK)

\* C6: in both executables, KeyboardInterrupt during the wait for the child
\* gives exit status 130.
C6_InterruptIs130 ==
    (pc = "exit" /\ outcome # None /\ outcome[1].kind = "KeyboardInterrupt")
       => status = Some(EXIT_INTERRUPTED)

\* C7: test.py with --dry-run launches no child process, locates the root and
\* resolves the tool as the walk and the lookup prescribe, and exits with 0
\* when a tool is resolved, with 127 when a root is located and none is.
C7_DryRun ==
    (exe = "test" /\ dry_run)
       => /\ launched = 0
          /\ outcome = None
          /\ pc \notin {"run_maven", "run_gradle"}
          /\ pc = "exit" =>
                /\ mroot = Nearest(MAVEN_MARKERS)
                /\ mroot = None => groot = Nearest(GRADLE_MARKERS)
                /\ (mroot # None \/ groot # None) =>
                      /\ tool = PriorityLookup(exe, Candidates, RootLocated, env)
                      /\ tool # None => status = Some(EXIT_OK)
                      /\ tool = None => status = Some(EXIT_NOT_FOUND)

\* a dry run in a Gradle project whose root holds an executable gradlew
C7_Witness ==
    /\ exe = "test" /\ dry_run
    /\ pc = "exit"
    /\ groot # None
    /\ tool = InDir(groot[1], GRADLE_WRAPPERS[1])
    /\ status = Some(EXIT_OK)
    /\ launched = 0

\* C8: the child is launched and runs to completion: main returns the child's
\* exit status, which is the program's exit status, and one child was launched.
C8_ChildStatusVerbatim ==
    (pc = "exit" /\ outcome # None /\ outcome[1].kind = "exited")
       => /\ rc = Some(outcome[1].code)
          /\ status = Some(outcome[1].code)
          /\ launched = 1

\* spotless_apply.py ended with its child's status 130
C8_Witness ==
    /\ pc = "exit"
    /\ exe = "spotless_apply"
    /\ outcome = Some([kind |-> "exited", code |-> EXIT_INTERRUPTED])
    /\ status = Some(EXIT_INTERRUPTED)

\* C9: in both executables the in-directory pass takes a candidate that exists
\* and has the execute permission or ends in .bat or .cmd, so both give the
\* same result for the same directory and search path.
C9_ScriptTakenWithoutXBit ==
    Resolved =>
       LET invocable == { i \in 1 .. Len(Candidates) :
                            /\ Candidates[i] \in env.exists
                            /\ \/ Candidates[i] \in env.xbit
                               \/ EndsWith(Candidates[i], {".bat", ".cmd"}) }
       IN  /\ invocable # {} => tool = InDir(RootLocated, Candidates[Min(invocable)])
           /\ tool = which_in_dir("test", Candidates, RootLocated, env)
           /\ tool = which_in_dir("spotless_apply", Candidates, RootLocated, env)

\* C10: the Gradle kind is tried only when no directory of the path holds
\* pom.xml; when one does, the root is the nearest directory with pom.xml and
\* the tool comes from the Maven candidates.
C10_MavenFirst ==
    /\ pc \in GradlePlaces => MarkerDirs(MAVEN_MARKERS) = {}
    /\ groot # None => MarkerDirs(MAVEN_MARKERS) = {}
    /\ (MavenWalkDone /\ MarkerDirs(MAVEN_MARKERS) # {})
          => /\ mroot = Some(Max(MarkerDirs(MAVEN_MARKERS)))
             /\ pc \in {"run_maven", "exit"} =>
                   /\ tool = PriorityLookup(exe, MAVEN_WRAPPERS, mroot[1], env)
                   /\ tool # None => tool[1].name \in Range(MAVEN_WRAPPERS)

\* the Maven tool ran from a root above the start directory, which holds a
\* Gradle marker and no pom.xml
C10_Witness ==
    /\ pc = "exit"
    /\ mroot # None
    /\ mroot[1] < start
    /\ files[start] = Range(GRADLE_MARKERS)
    /\ tool # None
    /\ launched = 1
=============================================================================
